---- MODULE Spec2Model ----
(***************************************************************************)
(* Model of the EigenLayer confidential-insurance compute core             *)
(* (eigenlayer-compute/src/simple_main.rs).                                *)
(*                                                                         *)
(* U256 is the source's four-limb struct U256(pub [u64; 4]); a value is    *)
(* the tuple <<limb0, limb1, limb2, limb3>> (self.0[k] is u[k+1]).  The    *)
(* u64 limb is scaled to LimbBits bits, so that a limb is an integer in    *)
(* 0 .. Limb-1 and u64 arithmetic is arithmetic modulo Limb.               *)
(*                                                                         *)
(* u64 `+` and `*` panic on overflow when the crate is built with overflow *)
(* checks (the dev profile) and wrap when it is built without (the release *)
(* profile); overflow_checks is the build's choice.  A u64 `/` by zero     *)
(* panics in every build.  A panicked evaluation is the value Panicked,    *)
(* which every operator propagates.                                        *)
(*                                                                         *)
(* src/main.rs holds the same five computations and isqrt, line for line,  *)
(* over the U256 of its module gen, which is not part of the sources; the  *)
(* definitions below follow simple_main.rs, whose U256 is.                 *)
(*                                                                         *)
(* Every call is a pure function of its arguments and nothing outlives a   *)
(* call, so a behaviour is one call: its arguments are drawn, it runs to   *)
(* its return (process_attestation_request through its two awaits, isqrt   *)
(* through the passes of its loop), and op, args and ret record what was   *)
(* called and what came back.                                              *)
(***************************************************************************)
EXTENDS Integers, Sequences, FiniteSets, TLC

VARIABLES overflow_checks, pc, op, args, locals, ret

vars == <<overflow_checks, pc, op, args, locals, ret>>

(* ------------------------------ bounds -------------------------------- *)

\* width of the model's limb (the source's limb is a u64)
LimbBits == 14

\* longest price / timestamp / public-input sequence the model draws
MaxLen == 3

\* largest number of operator attestations the model draws
MaxOperators == 2

Limb == 2^LimbBits

(* ------------------------------- U256 --------------------------------- *)

ZERO == <<0, 0, 0, 0>>

Panicked == <<-1, -1, -1, -1>>

U256_from(value) == <<value, 0, 0, 0>>

is_zero(u) == u[1] = 0 /\ u[2] = 0 /\ u[3] = 0 /\ u[4] = 0

as_u64(u) == u[1]

\* u64 `+` / `*` result n: in range, or wrapped / panicked as the build does
u64_checked(n) ==
    IF n < Limb THEN U256_from(n)
    ELSE IF overflow_checks THEN Panicked ELSE U256_from(n % Limb)

add(self, other) ==
    IF self = Panicked \/ other = Panicked THEN Panicked
    ELSE u64_checked(self[1] + other[1])

\* u64::saturating_sub on limb 0
sub(self, other) ==
    IF self = Panicked \/ other = Panicked THEN Panicked
    ELSE U256_from(IF self[1] >= other[1] THEN self[1] - other[1] ELSE 0)

mul(self, other) ==
    IF self = Panicked \/ other = Panicked THEN Panicked
    ELSE u64_checked(self[1] * other[1])

div(self, other) ==
    IF self = Panicked \/ other = Panicked THEN Panicked
    ELSE IF is_zero(other) THEN ZERO
    ELSE IF other[1] = 0 THEN Panicked
    ELSE U256_from(self[1] \div other[1])

\* PartialOrd::partial_cmp and PartialEq::eq compare limb 0 only
lt(a, b) == a[1] < b[1]
le(a, b) == a[1] <= b[1]
gt(a, b) == a[1] > b[1]
eq(a, b) == a[1] = b[1]

(* ------------------------------ isqrt --------------------------------- *)

RECURSIVE isqrt_loop(_, _, _)
isqrt_loop(value, x, y) ==
    IF y = Panicked THEN Panicked
    ELSE IF lt(y, x)
         THEN isqrt_loop(value, y, div(add(y, div(value, y)), U256_from(2)))
         ELSE x

isqrt(value) ==
    IF value = Panicked THEN Panicked
    ELSE IF is_zero(value) THEN ZERO
    ELSE isqrt_loop(value, value, div(add(value, U256_from(1)), U256_from(2)))

(* ------------------------ program constants --------------------------- *)

\* U256::from(10000): the basis-point scale
BP_SCALE == 10000

(* ------------------------------ Bytes --------------------------------- *)

\* Bytes(pub Vec<u8>) is the sequence of its bytes
bytes_is_empty(b) == Len(b) = 0

\* keccak256 keeps the first eight bytes of the digest as limb 0.  The digest
\* itself is not computed: digest is the function from byte strings to that
\* u64 which the caller's universe fixes, zero among its possible values.
keccak256(data, digest) == U256_from(digest[data])

(* ---------------------- calculate_impermanent_loss -------------------- *)

calculate_impermanent_loss(initial_token_a_amount, initial_token_b_amount, current_token_a_price, current_token_b_price, initial_token_a_price, initial_token_b_price, pool_fee_rate) ==
    IF is_zero(initial_token_a_price) \/ is_zero(initial_token_b_price)
    THEN <<ZERO, FALSE>>
    ELSE
      LET price_ratio ==
              div(mul(current_token_a_price, initial_token_b_price),
                  mul(initial_token_a_price, current_token_b_price))
          initial_value ==
              add(mul(initial_token_a_amount, initial_token_a_price),
                  mul(initial_token_b_amount, initial_token_b_price))
          hold_value ==
              add(mul(initial_token_a_amount, current_token_a_price),
                  mul(initial_token_b_amount, current_token_b_price))
          sqrt_ratio == isqrt(price_ratio)
          lp_multiplier ==
              div(mul(U256_from(2), sqrt_ratio), add(U256_from(1), price_ratio))
          lp_value == div(mul(initial_value, lp_multiplier), U256_from(1))
          fees_earned == div(mul(initial_value, pool_fee_rate), U256_from(BP_SCALE))
          total_lp_value == add(lp_value, fees_earned)
          impermanent_loss ==
              IF gt(hold_value, total_lp_value)
              THEN sub(hold_value, total_lp_value)
              ELSE ZERO
      IN  IF hold_value = Panicked \/ total_lp_value = Panicked
          THEN Panicked
          ELSE <<impermanent_loss, gt(impermanent_loss, ZERO)>>

(* --------------------------- calculate_payout ------------------------- *)

\* calculate_payout without the coverage cap
calculate_payout_uncapped(policy_id, impermanent_loss, coverage_amount, deductible, coverage_ratio) ==
    IF le(impermanent_loss, deductible) THEN ZERO
    ELSE div(mul(sub(impermanent_loss, deductible), coverage_ratio),
             U256_from(BP_SCALE))

calculate_payout(policy_id, impermanent_loss, coverage_amount, deductible, coverage_ratio) ==
    IF le(impermanent_loss, deductible) THEN ZERO
    ELSE
      LET covered_loss == sub(impermanent_loss, deductible)
          payout_before_cap ==
              div(mul(covered_loss, coverage_ratio), U256_from(BP_SCALE))
      IN  IF payout_before_cap = Panicked THEN Panicked
          ELSE IF gt(payout_before_cap, coverage_amount)
               THEN coverage_amount
               ELSE payout_before_cap

(* ------------------------ validate_oracle_prices ---------------------- *)

\* the deviation loop, for i in 1..price_data.len() (i is the 1-based index
\* of curr_price); the result is <<is_valid, valid_prices>>
RECURSIVE deviation_loop(_, _, _, _, _)
deviation_loop(price_data, deviation_threshold, i, is_valid, valid_prices) ==
    IF i > Len(price_data) THEN <<is_valid, valid_prices>>
    ELSE
      LET prev_price == price_data[i - 1]
          curr_price == price_data[i]
          deviation ==
              IF gt(curr_price, prev_price)
              THEN div(mul(sub(curr_price, prev_price), U256_from(BP_SCALE)),
                       prev_price)
              ELSE div(mul(sub(prev_price, curr_price), U256_from(BP_SCALE)),
                       prev_price)
      IN  IF is_zero(prev_price)
          THEN deviation_loop(price_data, deviation_threshold, i + 1, FALSE,
                              valid_prices)
          ELSE IF deviation = Panicked THEN Panicked
          ELSE IF gt(deviation, deviation_threshold)
               THEN deviation_loop(price_data, deviation_threshold, i + 1,
                                   FALSE, valid_prices)
               ELSE deviation_loop(price_data, deviation_threshold, i + 1,
                                   is_valid, Append(valid_prices, curr_price))

\* the timestamp loop, which breaks at the first non-increasing pair
RECURSIVE timestamp_loop(_, _, _)
timestamp_loop(timestamps, i, is_valid) ==
    IF i > Len(timestamps) THEN is_valid
    ELSE IF le(timestamps[i], timestamps[i - 1]) THEN FALSE
    ELSE timestamp_loop(timestamps, i + 1, is_valid)

validate_oracle_prices(price_data, timestamps, deviation_threshold) ==
    IF Len(price_data) # Len(timestamps) \/ Len(price_data) = 0
    THEN <<FALSE, <<>>>>
    ELSE
      LET scanned == deviation_loop(price_data, deviation_threshold, 2, TRUE, <<>>)
      IN  IF scanned = Panicked THEN Panicked
          ELSE <<timestamp_loop(timestamps, 2, scanned[1]), scanned[2]>>

(* ------------------------ aggregate_attestations ---------------------- *)

\* the summing loop; the result is <<aggregated_value, valid_attestations>>
RECURSIVE aggregate_loop(_, _, _, _, _, _)
aggregate_loop(attestations, signatures, operator_public_keys, i, aggregated_value, valid_attestations) ==
    IF aggregated_value = Panicked THEN Panicked
    ELSE IF i > Len(attestations) THEN <<aggregated_value, valid_attestations>>
    ELSE IF /\ ~is_zero(attestations[i])
            /\ ~bytes_is_empty(signatures[i])
            /\ ~bytes_is_empty(operator_public_keys[i])
         THEN aggregate_loop(attestations, signatures, operator_public_keys,
                             i + 1, add(aggregated_value, attestations[i]),
                             valid_attestations + 1)
         ELSE aggregate_loop(attestations, signatures, operator_public_keys,
                             i + 1, aggregated_value, valid_attestations)

aggregate_attestations(attestations, signatures, operator_public_keys, threshold) ==
    IF \/ Len(attestations) # Len(signatures)
       \/ Len(signatures) # Len(operator_public_keys)
    THEN <<ZERO, FALSE>>
    ELSE IF Len(attestations) < as_u64(threshold) THEN <<ZERO, FALSE>>
    ELSE
      LET summed == aggregate_loop(attestations, signatures,
                                   operator_public_keys, 1, ZERO, 0)
      IN  IF summed = Panicked THEN Panicked
          ELSE
            LET valid_attestations == summed[2]
                meets_threshold == valid_attestations >= as_u64(threshold)
            IN  IF meets_threshold /\ valid_attestations > 0
                THEN <<div(summed[1], U256_from(valid_attestations)),
                       meets_threshold>>
                ELSE <<ZERO, meets_threshold>>

(* --------------------- verify_encrypted_attestation ------------------- *)

\* verify_encrypted_attestation with computed_value taken from public_inputs
\* whether or not is_valid holds
verify_encrypted_attestation_unguarded(encrypted_attestation, proof, public_inputs, digest) ==
    IF bytes_is_empty(encrypted_attestation) \/ bytes_is_empty(proof)
    THEN <<FALSE, ZERO>>
    ELSE
      LET is_valid == /\ ~is_zero(keccak256(encrypted_attestation, digest))
                      /\ ~is_zero(keccak256(proof, digest))
                      /\ Len(public_inputs) # 0
      IN  <<is_valid, IF Len(public_inputs) # 0 THEN public_inputs[1] ELSE ZERO>>

verify_encrypted_attestation(encrypted_attestation, proof, public_inputs, digest) ==
    IF bytes_is_empty(encrypted_attestation) \/ bytes_is_empty(proof)
    THEN <<FALSE, ZERO>>
    ELSE
      LET attestation_hash == keccak256(encrypted_attestation, digest)
          proof_hash == keccak256(proof, digest)
          is_valid == /\ ~is_zero(attestation_hash)
                      /\ ~is_zero(proof_hash)
                      /\ Len(public_inputs) # 0
          computed_value ==
              IF is_valid /\ Len(public_inputs) # 0
              THEN public_inputs[1]
              ELSE ZERO
      IN  <<is_valid, computed_value>>

(* ------------------------------ inputs -------------------------------- *)

AllOnes == <<Limb - 1, Limb - 1, Limb - 1, Limb - 1>>

\* 2^64 in the source's width: limb 0 is zero, limb 1 is one
HighOne == <<0, 1, 0, 0>>

SeqsUpTo(S, n) == UNION {[1 .. k -> S] : k \in 0 .. n}

\* operands of the arithmetic operators
Operands ==
    {U256_from(l) : l \in {0, 1, 2, 3, Limb \div 2, Limb - 1}}
        \cup {HighOne, <<1, 1, 0, 0>>, AllOnes}

\* arguments of isqrt
Radicands ==
    {U256_from(l) : l \in (0 .. 40) \cup {Limb - 2, Limb - 1}}
        \cup {HighOne, <<9, 1, 0, 0>>}

Amounts == {U256_from(l) : l \in {0, 10, Limb - 1}}
CurrentPrices == {U256_from(l) : l \in {0, 1, 4, 5}} \cup {HighOne}
InitialPrices == {U256_from(l) : l \in {0, 1, 5}} \cup {HighOne}
FeeRates == {U256_from(l) : l \in {0, 30, BP_SCALE}}

PolicyIds == {U256_from(l) : l \in {1, 2}}
Losses == {U256_from(l) : l \in {0, 1, 2, 3, 50, 100, Limb - 1}} \cup {HighOne}
CoverageAmounts == {U256_from(l) : l \in {0, 1, 2, Limb - 1}} \cup {HighOne}
Deductibles == {U256_from(l) : l \in {0, 1, 100}}
CoverageRatios == {U256_from(l) : l \in {0, 300, 5000, 8000, BP_SCALE}}

Prices == {U256_from(l) : l \in {0, 1, 2, 3}} \cup {HighOne}
Timestamps == {U256_from(l) : l \in {1, 2, 3}}
DeviationThresholds == {U256_from(l) : l \in {5000, BP_SCALE}}

AttestedValues == {U256_from(l) : l \in {0, 10, 20, Limb - 1}} \cup {HighOne}
ByteStrings == {<<>>, <<0>>, <<1>>}
Signatures == {<<>>, <<1>>}
Thresholds == {U256_from(l) : l \in 0 .. MaxOperators + 1} \cup {HighOne}

PublicInputs == {ZERO, U256_from(42), HighOne}
Digests == [ByteStrings -> {0, 1}]

\* the fields of an AttestationRequest
Requests ==
    [policy_id : PolicyIds,
     initial_token_a_amount : {U256_from(l) : l \in {10, Limb - 1}},
     initial_token_b_amount : {U256_from(l) : l \in {0, 10}},
     current_token_a_price : {U256_from(l) : l \in {1, 4, 5}},
     current_token_b_price : {U256_from(l) : l \in {0, 1}},
     initial_token_a_price : {U256_from(l) : l \in {0, 1}},
     initial_token_b_price : {U256_from(l) : l \in {1, 5}},
     pool_fee_rate : {U256_from(l) : l \in {0, 30}},
     coverage_amount : {U256_from(l) : l \in {0, 1, 2}} \cup {HighOne},
     deductible : {U256_from(l) : l \in {0, 1}},
     coverage_ratio : {U256_from(l) : l \in {300, 5000, BP_SCALE}}]

NoArgs == <<>>

(* ------------------------------ actions ------------------------------- *)

\* what a call hands back: the value, or the panic that unwound it
Outcome(v) == [panicked |-> v = Panicked, value |-> v]

Init ==
    /\ overflow_checks \in BOOLEAN
    /\ pc = "idle"
    /\ op = "none"
    /\ args = NoArgs
    /\ locals = NoArgs
    /\ ret = Outcome(ZERO)

\* one call of a function that has no suspension point of its own
Return(name, a, r) ==
    /\ pc = "idle"
    /\ pc' = "returned"
    /\ op' = name
    /\ args' = a
    /\ ret' = Outcome(r)
    /\ UNCHANGED <<overflow_checks, locals>>

Add ==
    /\ pc = "idle"
    /\ \E a, b \in Operands :
        Return("add", [self |-> a, other |-> b], add(a, b))

Sub ==
    /\ pc = "idle"
    /\ \E a, b \in Operands :
        Return("sub", [self |-> a, other |-> b], sub(a, b))

Mul ==
    /\ pc = "idle"
    /\ \E a, b \in Operands :
        Return("mul", [self |-> a, other |-> b], mul(a, b))

Div ==
    /\ pc = "idle"
    /\ \E a, b \in Operands :
        Return("div", [self |-> a, other |-> b], div(a, b))

\* isqrt up to its loop: the early return on zero, else x and y are set
Isqrt ==
    /\ pc = "idle"
    /\ \E v \in Radicands :
        LET y == div(add(v, U256_from(1)), U256_from(2))
        IN  IF is_zero(v) THEN Return("isqrt", [value |-> v], ZERO)
            ELSE IF y = Panicked THEN Return("isqrt", [value |-> v], Panicked)
            ELSE /\ pc' = "isqrt_loop"
                 /\ op' = "isqrt"
                 /\ args' = [value |-> v]
                 /\ locals' = [x |-> v, y |-> y]
                 /\ UNCHANGED <<overflow_checks, ret>>

\* one pass of the body of `while y < x`
IsqrtIterate ==
    /\ pc = "isqrt_loop"
    /\ lt(locals.y, locals.x)
    /\ LET y == div(add(locals.y, div(args.value, locals.y)), U256_from(2))
       IN  IF y = Panicked
           THEN /\ pc' = "returned"
                /\ ret' = Outcome(Panicked)
                /\ UNCHANGED locals
           ELSE /\ pc' = "isqrt_loop"
                /\ locals' = [x |-> locals.y, y |-> y]
                /\ UNCHANGED ret
    /\ UNCHANGED <<overflow_checks, op, args>>

\* the loop's exit: y < x is false and x is returned
IsqrtReturn ==
    /\ pc = "isqrt_loop"
    /\ ~lt(locals.y, locals.x)
    /\ pc' = "returned"
    /\ ret' = Outcome(locals.x)
    /\ UNCHANGED <<overflow_checks, op, args, locals>>

CalculateImpermanentLoss ==
    /\ pc = "idle"
    /\ \E a_amt, b_amt \in Amounts, ca, cb \in CurrentPrices,
       ia, ib \in InitialPrices, fee \in FeeRates :
        Return("calculate_impermanent_loss",
               [initial_token_a_amount |-> a_amt,
                initial_token_b_amount |-> b_amt,
                current_token_a_price |-> ca,
                current_token_b_price |-> cb,
                initial_token_a_price |-> ia,
                initial_token_b_price |-> ib,
                pool_fee_rate |-> fee],
               calculate_impermanent_loss(a_amt, b_amt, ca, cb, ia, ib, fee))

CalculatePayout ==
    /\ pc = "idle"
    /\ \E id \in PolicyIds, il \in Losses, cov \in CoverageAmounts,
       ded \in Deductibles, ratio \in CoverageRatios :
        Return("calculate_payout",
               [policy_id |-> id, impermanent_loss |-> il,
                coverage_amount |-> cov, deductible |-> ded,
                coverage_ratio |-> ratio],
               calculate_payout(id, il, cov, ded, ratio))

ValidateOraclePrices ==
    /\ pc = "idle"
    /\ \E n \in 0 .. MaxLen, m \in 0 .. MaxLen, thr \in DeviationThresholds :
        /\ m \in {n, n - 1}
        /\ \E p \in [1 .. n -> Prices], t \in [1 .. m -> Timestamps] :
            Return("validate_oracle_prices",
                   [price_data |-> p, timestamps |-> t,
                    deviation_threshold |-> thr],
                   validate_oracle_prices(p, t, thr))

\* the three sequences of equal length, or one of the last two a slot short
AggregateAttestations ==
    /\ pc = "idle"
    /\ \E n \in 0 .. MaxOperators, thr \in Thresholds,
          short \in {"none", "signatures", "operator_public_keys"} :
        /\ short # "none" => n > 0
        /\ \E a \in [1 .. n -> AttestedValues],
              s \in [1 .. (IF short = "signatures" THEN n - 1 ELSE n)
                        -> Signatures],
              k \in [1 .. (IF short = "operator_public_keys" THEN n - 1 ELSE n)
                        -> Signatures] :
            Return("aggregate_attestations",
                   [attestations |-> a, signatures |-> s,
                    operator_public_keys |-> k, threshold |-> thr],
                   aggregate_attestations(a, s, k, thr))

VerifyEncryptedAttestation ==
    /\ pc = "idle"
    /\ \E e, p \in ByteStrings, pi \in SeqsUpTo(PublicInputs, MaxLen),
       digest \in Digests :
        Return("verify_encrypted_attestation",
               [encrypted_attestation |-> e, proof |-> p,
                public_inputs |-> pi, digest |-> digest],
               verify_encrypted_attestation(e, p, pi, digest))

(* process_attestation_request, one action per suspension point *)

ProcessAttestationRequest ==
    /\ pc = "idle"
    /\ \E request \in Requests :
        /\ op' = "process_attestation_request"
        /\ args' = request
    /\ pc' = "calculate_impermanent_loss"
    /\ UNCHANGED <<overflow_checks, locals, ret>>

AwaitImpermanentLoss ==
    /\ pc = "calculate_impermanent_loss"
    /\ LET r == calculate_impermanent_loss(
                    args.initial_token_a_amount, args.initial_token_b_amount,
                    args.current_token_a_price, args.current_token_b_price,
                    args.initial_token_a_price, args.initial_token_b_price,
                    args.pool_fee_rate)
       IN  IF r = Panicked
           THEN /\ pc' = "returned"
                /\ ret' = Outcome(Panicked)
                /\ UNCHANGED locals
           ELSE /\ pc' = "calculate_payout"
                /\ locals' = [impermanent_loss |-> r[1], has_loss |-> r[2]]
                /\ UNCHANGED ret
    /\ UNCHANGED <<overflow_checks, op, args>>

AwaitPayout ==
    /\ pc = "calculate_payout"
    /\ LET r == calculate_payout(args.policy_id, locals.impermanent_loss,
                                 args.coverage_amount, args.deductible,
                                 args.coverage_ratio)
       IN  IF r = Panicked
           THEN /\ pc' = "returned"
                /\ ret' = Outcome(Panicked)
                /\ UNCHANGED locals
           ELSE /\ pc' = "respond"
                /\ locals' = [impermanent_loss |-> locals.impermanent_loss,
                              has_loss |-> locals.has_loss,
                              payout |-> r]
                /\ UNCHANGED ret
    /\ UNCHANGED <<overflow_checks, op, args>>

Respond ==
    /\ pc = "respond"
    /\ pc' = "returned"
    /\ ret' = [panicked |-> FALSE,
               value |-> [impermanent_loss |-> locals.impermanent_loss,
                          has_loss |-> locals.has_loss,
                          payout |-> locals.payout,
                          is_valid |-> TRUE]]
    /\ UNCHANGED <<overflow_checks, op, args, locals>>

Next ==
    \/ Add
    \/ Sub
    \/ Mul
    \/ Div
    \/ Isqrt
    \/ IsqrtIterate
    \/ IsqrtReturn
    \/ CalculateImpermanentLoss
    \/ CalculatePayout
    \/ ValidateOraclePrices
    \/ AggregateAttestations
    \/ VerifyEncryptedAttestation
    \/ ProcessAttestationRequest
    \/ AwaitImpermanentLoss
    \/ AwaitPayout
    \/ Respond

Spec == Init /\ [][Next]_vars

\* a call that has started runs on: the loop of isqrt is straight-line code
\* that nothing suspends
FairSpec == Spec /\ WF_vars(IsqrtIterate) /\ WF_vars(IsqrtReturn)

(* ======================= reference arithmetic ========================= *)

\* the number a U256 stands for when its two high limbs are zero
Val(u) == u[1] + Limb * u[2]

Min(x, y) == IF x <= y THEN x ELSE y

AbsDiff(x, y) == IF x >= y THEN x - y ELSE y - x

\* floor(x * y / d), computed without forming x * y
MulDivFloor(x, y, d) == (x \div d) * y + ((x % d) * y) \div d

Zeros(n) == [k \in 1 .. n |-> 0]

\* exact sum of two little-endian limb sequences of equal length; the
\* result is one limb longer
RECURSIVE BigAdd(_, _, _, _)
BigAdd(a, b, i, carry) ==
    IF i > Len(a) THEN <<carry>>
    ELSE LET t == a[i] + b[i] + carry
         IN  <<t % Limb>> \o BigAdd(a, b, i + 1, t \div Limb)

\* exact product of a limb sequence and one limb; one limb longer
RECURSIVE BigScale(_, _, _, _)
BigScale(a, d, i, carry) ==
    IF i > Len(a) THEN <<carry>>
    ELSE LET t == a[i] * d + carry
         IN  <<t % Limb>> \o BigScale(a, d, i + 1, t \div Limb)

\* exact product of two four-limb numbers, as eight limbs
RECURSIVE BigMul(_, _, _)
BigMul(a, b, j) ==
    IF j > Len(b) THEN Zeros(8)
    ELSE LET part == Zeros(j - 1) \o BigScale(a, b[j], 1, 0) \o Zeros(4 - j)
         IN  SubSeq(BigAdd(part, BigMul(a, b, j + 1), 1, 0), 1, 8)

ExactSum(a, b) == BigAdd(a, b, 1, 0)
ExactProduct(a, b) == BigMul(a, b, 1)

\* the exact result is within the four limbs of a U256
Fits(n) == \A i \in 5 .. Len(n) : n[i] = 0
Low(n) == SubSeq(n, 1, 4)

Returned(name) == pc = "returned" /\ op = name

\* A call that panicked has reported a fault and returned no value.  C1 and
\* C2 say when a fault is due; the formulas of C3 to C8 speak of the values
\* that are returned.

(* ============================== claims ================================ *)

\* C1: UInt256 add and mul never silently wrap or truncate: when the exact
\* sum or product is within the 256-bit range the operation returns exactly
\* it (so that (a+b)-b = a), and when it is not the operation fails.
C1_NoSilentWrap ==
    (pc = "returned" /\ op \in {"add", "mul"}) =>
        LET exact == IF op = "add" THEN ExactSum(args.self, args.other)
                     ELSE ExactProduct(args.self, args.other)
        IN  IF Fits(exact)
            THEN /\ ~ret.panicked
                 /\ ret.value = Low(exact)
                 /\ op = "add" => sub(ret.value, args.other) = args.self
            ELSE ret.panicked

\* C2: a division whose divisor is zero ends in a reported error and never
\* in a numeric value, in div itself and in the price_ratio division of
\* calculate_impermanent_loss when current_token_b_price is zero.
C2_DivisionByZeroReported ==
    /\ (Returned("div") /\ is_zero(args.other)) => ret.panicked
    /\ (/\ Returned("calculate_impermanent_loss")
        /\ ~is_zero(args.initial_token_a_price)
        /\ ~is_zero(args.initial_token_b_price)
        /\ is_zero(args.current_token_b_price)) => ret.panicked

\* C3: for every n, isqrt(n) returns r = floor(sqrt(n)):
\* r*r <= n < (r+1)*(r+1).
C3_IsqrtIsFloorSqrt ==
    Returned("isqrt") =>
        \/ ret.panicked
        \/ LET n == Val(args.value)
               r == Val(ret.value)
           IN  r * r <= n /\ n < (r + 1) * (r + 1)

\* C4: calculate_payout returns 0 when impermanent_loss <= deductible and
\* min((impermanent_loss - deductible) * coverage_ratio / 10000,
\* coverage_amount) otherwise; the payout never exceeds coverage_amount and
\* does not depend on policy_id.
C4_PayoutFormula ==
    (Returned("calculate_payout") /\ ~ret.panicked) =>
        /\ LET il == Val(args.impermanent_loss)
               ded == Val(args.deductible)
               cov == Val(args.coverage_amount)
               ratio == Val(args.coverage_ratio)
           IN  /\ Val(ret.value) =
                      IF il <= ded THEN 0
                      ELSE Min(((il - ded) * ratio) \div BP_SCALE, cov)
               /\ Val(ret.value) <= cov
        /\ \A id \in PolicyIds :
               calculate_payout(id, args.impermanent_loss, args.coverage_amount,
                                args.deductible, args.coverage_ratio) = ret.value

RECURSIVE SumOver(_, _)
SumOver(f, S) ==
    IF S = {} THEN 0
    ELSE LET i == CHOOSE j \in S : TRUE IN f[i] + SumOver(f, S \ {i})

\* C5: aggregate_attestations returns (0, false) when the sequences differ in
\* length or there are fewer submissions than threshold; otherwise exactly
\* the indices with a non-zero value, a non-empty signature and a non-empty
\* key are valid, quorum_met is (valid count >= threshold), and
\* aggregated_value is the truncated mean of the valid values when quorum is
\* met and 0 when it is not.
C5_AggregateMean ==
    (Returned("aggregate_attestations") /\ ~ret.panicked) =>
        /\ LET a == args.attestations
               s == args.signatures
               k == args.operator_public_keys
               thr == Val(args.threshold)
           IN  IF Len(a) # Len(s) \/ Len(s) # Len(k) \/ Len(a) < thr
               THEN ret.value = <<ZERO, FALSE>>
               ELSE LET valid == {i \in 1 .. Len(a) :
                                     /\ Val(a[i]) # 0
                                     /\ s[i] # <<>>
                                     /\ k[i] # <<>>}
                        count == Cardinality(valid)
                        total == SumOver([i \in 1 .. Len(a) |-> Val(a[i])], valid)
                        quorum == count >= thr
                    IN  /\ ret.value[2] = quorum
                        /\ Val(ret.value[1]) =
                               IF quorum /\ count > 0 THEN total \div count
                               ELSE 0

\* the deviation of p[i] from p[i-1] in basis points is within the threshold
WithinDeviation(p, i, thr) ==
    /\ Val(p[i - 1]) # 0
    /\ (AbsDiff(Val(p[i]), Val(p[i - 1])) * BP_SCALE) \div Val(p[i - 1]) <= Val(thr)

\* C6: validate_oracle_prices returns is_valid = true exactly when the two
\* sequences have equal non-zero length, every adjacent price pair has a
\* non-zero predecessor and a deviation within deviation_threshold, and the
\* timestamps are strictly increasing; unequal or empty sequences give
\* (false, []).
C6_OracleValidity ==
    (Returned("validate_oracle_prices") /\ ~ret.panicked) =>
        /\ LET p == args.price_data
               t == args.timestamps
           IN  /\ ret.value[1] =
                      (/\ Len(p) = Len(t)
                       /\ Len(p) # 0
                       /\ \A i \in 2 .. Len(p) :
                              WithinDeviation(p, i, args.deviation_threshold)
                       /\ \A i \in 2 .. Len(t) : Val(t[i]) > Val(t[i - 1]))
               /\ (Len(p) # Len(t) \/ Len(p) = 0) => ret.value = <<FALSE, <<>>>>

RECURSIVE AcceptedFrom(_, _, _)
AcceptedFrom(p, thr, i) ==
    IF i > Len(p) THEN <<>>
    ELSE (IF WithinDeviation(p, i, thr) THEN <<p[i]>> ELSE <<>>)
             \o AcceptedFrom(p, thr, i + 1)

\* C7: for equal-length non-empty sequences, accepted_prices is exactly the
\* subsequence, in order, of the p[i] (i >= 1) whose predecessor is non-zero
\* and whose deviation is within deviation_threshold, whatever the
\* timestamps and the earlier pairs are.
C7_AcceptedPrices ==
    (/\ Returned("validate_oracle_prices")
     /\ Len(args.price_data) = Len(args.timestamps)
     /\ Len(args.price_data) # 0
     /\ ~ret.panicked) =>
        /\ ret.value[2] =
               AcceptedFrom(args.price_data, args.deviation_threshold, 2)

RECURSIVE FloorSqrt(_, _)
FloorSqrt(n, r) == IF (r + 1) * (r + 1) > n THEN r ELSE FloorSqrt(n, r + 1)

\* C8: calculate_impermanent_loss returns (0, false) when an initial price
\* is zero; otherwise impermanent_loss is hold_value saturating-minus
\* total_lp_value for the stated price_ratio, initial_value, hold_value,
\* lp_multiplier and total_lp_value, and has_loss is impermanent_loss > 0.
\* (A zero price_ratio divisor is C2's case and is left open here.)
C8_ImpermanentLossFormula ==
    (Returned("calculate_impermanent_loss") /\ ~ret.panicked) =>
        LET a_amt == Val(args.initial_token_a_amount)
            b_amt == Val(args.initial_token_b_amount)
            ca == Val(args.current_token_a_price)
            cb == Val(args.current_token_b_price)
            ia == Val(args.initial_token_a_price)
            ib == Val(args.initial_token_b_price)
            fee == Val(args.pool_fee_rate)
            price_ratio == (ca * ib) \div (ia * cb)
            initial_value == a_amt * ia + b_amt * ib
            hold_value == a_amt * ca + b_amt * cb
            lp_multiplier == (2 * FloorSqrt(price_ratio, 0)) \div (1 + price_ratio)
            total_lp_value == initial_value * lp_multiplier
                                  + MulDivFloor(initial_value, fee, BP_SCALE)
            impermanent_loss ==
                IF hold_value > total_lp_value THEN hold_value - total_lp_value
                ELSE 0
        IN  IF ia = 0 \/ ib = 0
            THEN ret.value = <<ZERO, FALSE>>
            ELSE IF cb = 0 THEN TRUE
            ELSE /\ Val(ret.value[1]) = impermanent_loss
                 /\ ret.value[2] = (impermanent_loss > 0)

\* C9: verify_encrypted_attestation returns (false, 0) when the encrypted
\* attestation or the proof is empty; (true, public_inputs[0]) when both are
\* non-empty, public_inputs is non-empty and the proof check accepts (both
\* digests non-zero); and computed_value is 0 whenever is_valid is false.
C9_VerifyFailsClosed ==
    Returned("verify_encrypted_attestation") =>
        LET e == args.encrypted_attestation
            p == args.proof
            accepts == args.digest[e] # 0 /\ args.digest[p] # 0
        IN  /\ ~ret.panicked
            /\ (e = <<>> \/ p = <<>>) => ret.value = <<FALSE, ZERO>>
            /\ (e # <<>> /\ p # <<>> /\ args.public_inputs # <<>> /\ accepts)
                   => ret.value = <<TRUE, args.public_inputs[1]>>
            /\ ~ret.value[1] => ret.value[2] = ZERO

C9_Witness ==
    /\ Returned("verify_encrypted_attestation")
    /\ args.encrypted_attestation # <<>>
    /\ args.proof # <<>>
    /\ Len(args.public_inputs) = 2
    /\ ret.value = <<TRUE, U256_from(42)>>

\* C10: process_attestation_request first computes (impermanent_loss,
\* has_loss) with calculate_impermanent_loss on the request's pool fields,
\* then payout with calculate_payout on that impermanent_loss and the
\* request's policy fields, and responds with exactly these and
\* is_valid = true; a response with has_loss = false has payout 0, and
\* payout never exceeds the request's coverage_amount.
C10_ProcessComposes ==
    /\ (op = "process_attestation_request" /\ pc \in {"calculate_payout", "respond"})
           => <<locals.impermanent_loss, locals.has_loss>> =
                  calculate_impermanent_loss(
                      args.initial_token_a_amount, args.initial_token_b_amount,
                      args.current_token_a_price, args.current_token_b_price,
                      args.initial_token_a_price, args.initial_token_b_price,
                      args.pool_fee_rate)
    /\ (Returned("process_attestation_request") /\ ~ret.panicked) =>
           /\ ret.value.is_valid
           /\ <<ret.value.impermanent_loss, ret.value.has_loss>> =
                  calculate_impermanent_loss(
                      args.initial_token_a_amount, args.initial_token_b_amount,
                      args.current_token_a_price, args.current_token_b_price,
                      args.initial_token_a_price, args.initial_token_b_price,
                      args.pool_fee_rate)
           /\ ret.value.payout =
                  calculate_payout(args.policy_id, ret.value.impermanent_loss,
                                   args.coverage_amount, args.deductible,
                                   args.coverage_ratio)
           /\ ~ret.value.has_loss => ret.value.payout = ZERO
           /\ Val(ret.value.payout) <= Val(args.coverage_amount)

C10_Witness ==
    /\ Returned("process_attestation_request")
    /\ ~ret.panicked
    /\ ret.value.has_loss
    /\ ret.value.payout = U256_from(1)
    /\ args.coverage_amount = U256_from(1)
    /\ ~is_zero(args.current_token_b_price)
    /\ gt(ret.value.impermanent_loss, U256_from(1))

(* ------------------------- isqrt, step by step ------------------------ *)

\* the loop of isqrt is about to run its body
InIsqrtBody == pc = "isqrt_loop" /\ lt(locals.y, locals.x)

\* C11: the Newton iteration of isqrt (x0 = v, y0 = (v+1)/2,
\* y' = (y + v/y)/2 while y < x) terminates for every input v: no call ends
\* in a fault, the u64 sum v+1 does not overflow, and whenever the body is
\* about to run the divisor y is not zero, the u64 sum y + v/y does not
\* overflow, and the next x (which is y) is strictly below x.
C11_IsqrtIterationSafe ==
    /\ Returned("isqrt") => ~ret.panicked
    /\ pc = "isqrt_loop" => args.value[1] + 1 < Limb
    /\ InIsqrtBody =>
           /\ ~is_zero(locals.y)
           /\ locals.y[1] + (args.value[1] \div locals.y[1]) < Limb
           /\ Val(locals.y) < Val(locals.x)

\* The loop's own variant does hold: every pass of the body strictly lowers
\* limb 0 of x, in every build and for every argument.
IsqrtXDecreases ==
    [][(pc = "isqrt_loop" /\ pc' = "isqrt_loop") => lt(locals'.x, locals.x)]_vars

\* Under FairSpec every call of isqrt that reaches its loop returns (with a
\* value, or with the panic of a u64 overflow).
IsqrtTerminates == (pc = "isqrt_loop") ~> Returned("isqrt")

\* The stepped loop returns what the function isqrt returns.
IsqrtStepsAgree ==
    Returned("isqrt") => ret = Outcome(isqrt(args.value))

\* C11's formula fails at limb 0 = u64::MAX alone, where v+1 overflows: for
\* every other argument the iteration is as C11 states.
IsqrtSafeBelowMax ==
    (op = "isqrt" /\ args.value[1] < Limb - 1) => C11_IsqrtIterationSafe

(* ============== the same formulas, arithmetic faults aside ============ *)

OneLimb(u) == u[2] = 0 /\ u[3] = 0 /\ u[4] = 0

OneLimbArgs ==
    CASE op \in {"add", "mul"} -> OneLimb(args.self) /\ OneLimb(args.other)
      [] op = "isqrt" -> OneLimb(args.value)
      [] op = "calculate_payout" ->
             OneLimb(args.impermanent_loss) /\ OneLimb(args.coverage_amount)
      [] op = "aggregate_attestations" ->
             /\ OneLimb(args.threshold)
             /\ \A i \in 1 .. Len(args.attestations) : OneLimb(args.attestations[i])
      [] op = "validate_oracle_prices" ->
             \A i \in 1 .. Len(args.price_data) : OneLimb(args.price_data[i])
      [] op = "calculate_impermanent_loss" ->
             /\ OneLimb(args.current_token_a_price)
             /\ OneLimb(args.current_token_b_price)
             /\ OneLimb(args.initial_token_a_price)
             /\ OneLimb(args.initial_token_b_price)
      [] OTHER -> TRUE

\* In a build with overflow checks, a call on one-limb arguments that returns
\* at all (no u64 operation overflowed) returns what C1 and C3 to C8 state:
\* these claims fail through the truncated arithmetic alone.
AgreesWithoutOverflow ==
    (pc = "returned" /\ overflow_checks /\ ~ret.panicked /\ OneLimbArgs) =>
        /\ C1_NoSilentWrap
        /\ C3_IsqrtIsFloorSqrt
        /\ C4_PayoutFormula
        /\ C5_AggregateMean
        /\ C6_OracleValidity
        /\ C7_AcceptedPrices
        /\ C8_ImpermanentLossFormula

(* --------------------------- quorum and value ------------------------- *)

\* the indices aggregate_attestations counts valid in the returned call
CountedValid ==
    {i \in 1 .. Len(args.attestations) :
        /\ ~is_zero(args.attestations[i])
        /\ ~bytes_is_empty(args.signatures[i])
        /\ ~bytes_is_empty(args.operator_public_keys[i])}

\* C12: for every input to aggregate_attestations (every threshold, 0
\* included, and every combination of zero values and empty signatures or
\* keys), whenever quorum_met is true at least one attestation was counted
\* valid and aggregated_value is non-zero and lies between the smallest
\* and the largest counted-valid value.
C12_QuorumImpliesValue ==
    (Returned("aggregate_attestations") /\ ~ret.panicked /\ ret.value[2]) =>
        LET aggregated_value == Val(ret.value[1])
        IN  /\ CountedValid # {}
            /\ aggregated_value # 0
            /\ \E i \in CountedValid : Val(args.attestations[i]) <= aggregated_value
            /\ \E i \in CountedValid : aggregated_value <= Val(args.attestations[i])

\* quorum_met is true exactly when the count of valid attestations reaches
\* limb 0 of threshold, which a threshold of 0 does with no valid
\* attestation at all.
QuorumIsCountAtLeastThreshold ==
    (/\ Returned("aggregate_attestations")
     /\ ~ret.panicked
     /\ Len(args.attestations) = Len(args.signatures)
     /\ Len(args.signatures) = Len(args.operator_public_keys)
     /\ Len(args.attestations) >= as_u64(args.threshold)) =>
        ret.value[2] = (Cardinality(CountedValid) >= as_u64(args.threshold))

\* With at least one attestation counted valid, one-limb arguments and no
\* overflowed sum, C12's formula holds: it fails at quorum with nothing
\* valid (threshold 0) and through the truncated arithmetic, nowhere else.
QuorumValueWithoutOverflow ==
    (/\ Returned("aggregate_attestations")
     /\ overflow_checks
     /\ ~ret.panicked
     /\ OneLimbArgs
     /\ ret.value[2]
     /\ CountedValid # {}) => C12_QuorumImpliesValue

====
